---- MODULE Spec2Model ----
(***************************************************************************)
(* Model of the cache client of tab-stash (src/src/cache-client.ts): the   *)
(* process-wide registry CACHES, the Cache objects it holds, their         *)
(* _local_cache of CacheEntry objects, and the browser.runtime.Port each   *)
(* Cache talks to.                                                         *)
(*                                                                         *)
(* JS objects live in heaps (sequences); a reference is an index into the  *)
(* heap, so "the same object" is "the same index" and a field update       *)
(* through one reference is seen through every other.                      *)
(***************************************************************************)
EXTENDS Integers, Sequences, FiniteSets, Bags, TLC

\* The inputs the callers and the service draw from.
Names == {"settings", "bookmarks"}
Keys == {"theme", "volume"}
Values == {"dark", "light"}

\* Capacity of a port's queue of posted, not yet consumed messages.
MaxQueue == 1
\* Capacity of a port's queue of messages from the service, not yet delivered.
MaxInbox == 2

\* JS undefined (CacheEntry.value of an entry that holds nothing).
Absent == "undefined"
\* No object (a call that threw returns none).
NoRef == 0

VARIABLES
    CACHES,       \* Map<string, Cache>: name -> reference into mirrors
    mirrors,      \* heap of Cache objects: [_name, _service, _local_cache]
    records,      \* heap of CacheEntry objects: [key, value, requested]
    ports,        \* heap of browser.runtime.Port objects:
                  \*   [name, connected, outbox (to the service), inbox (from it)]
    last,         \* the call or event that ran last: [op, args, ret, threw, posted]
    fetchesSent,  \* history: bag of <<mirror, key>>, one copy per Fetch posted
    gotKeys,      \* history: set of <<mirror, key>> on which get() was called
    store,        \* the cache service's authoritative map: key -> value
    track         \* history: one Entry posted by a set(), followed on its way

vars == <<CACHES, mirrors, records, ports, last, fetchesSent, gotKeys, store, track>>

----------------------------------------------------------------------------
\* Message<Content> of cache-proto, as the client builds and reads it.

Fetch(key) == [type |-> "fetch", key |-> key]
Entry(key, value) == [type |-> "entry", key |-> key, value |-> value]
Expiring(key) == [type |-> "expiring", key |-> key]
\* A message of a kind this protocol version does not know.
Unknown(key) == [type |-> "bogus", key |-> key]

InboundMessages ==
    {Entry(k, v) : k \in Keys, v \in Values}
        \cup {Expiring(k) : k \in Keys}
        \cup {Fetch(k) : k \in Keys}
        \cup {Unknown(k) : k \in Keys}

----------------------------------------------------------------------------
\* browser.runtime.connect(undefined, {name}): a fresh, connected port.
connect(name) ==
    [name |-> name, connected |-> TRUE, outbox |-> <<>>, inbox |-> <<>>]

\* What Port.postMessage can do.  On a connected port the message is queued.
\* On a disconnected port the host decides: browsers raise an Error
\* ("Attempt to postMessage on disconnected port"), a lenient host drops the
\* message; the client's code does not choose between them.
PostOutcomes(port) ==
    IF port.connected THEN {"sent"} ELSE {"dropped", "throws"}

postMessage(port, m, outcome) ==
    IF outcome = "sent" THEN [port EXCEPT !.outbox = Append(@, m)] ELSE port

\* Cache._send: no guard and no try/catch around postMessage.
_send(st, cache, m, outcome) ==
    [st EXCEPT !.ports[cache._service] = postMessage(@, m, outcome),
               !.posted = IF outcome = "throws" THEN @ ELSE Append(@, m),
               !.threw = (outcome = "throws")]

\* _cached without its lookup: a new entry object on every call, bound to the
\* key in place of the one that was there.
_cached_Fresh(st, m, key) ==
    LET lc == st.mirrors[m]._local_cache
        ent == Len(st.records) + 1
    IN  [st EXCEPT !.records = Append(@, [key |-> key, value |-> Absent,
                                          requested |-> FALSE]),
                   !.mirrors[m]._local_cache =
                        [k \in DOMAIN lc \cup {key} |-> IF k = key THEN ent ELSE lc[k]],
                   !.ret = ent]

\* _cached over a map shared by every Cache object (a static _local_cache):
\* the lookup and the insertion go to the first Cache's map.
_cached_Shared(st, m, key) ==
    LET lc == st.mirrors[1]._local_cache IN
    IF key \in DOMAIN lc
    THEN [st EXCEPT !.ret = lc[key]]
    ELSE LET ent == Len(st.records) + 1 IN
         [st EXCEPT !.records = Append(@, [key |-> key, value |-> Absent,
                                           requested |-> FALSE]),
                    !.mirrors[1]._local_cache = @ @@ (key :> ent),
                    !.ret = ent]

\* Cache._cached: the entry for key, created empty on first use.
_cached(st, m, key) ==
    LET lc == st.mirrors[m]._local_cache IN
    IF key \in DOMAIN lc
    THEN [st EXCEPT !.ret = lc[key]]
    ELSE LET ent == Len(st.records) + 1 IN
         [st EXCEPT !.records = Append(@, [key |-> key, value |-> Absent,
                                           requested |-> FALSE]),
                    !.mirrors[m]._local_cache = @ @@ (key :> ent),
                    !.ret = ent]

\* get without its `ent.requested = true`.
get_NoLatch(st, m, key, outcome) ==
    LET c == _cached(st, m, key)
        ent == c.ret
    IN  IF ~ c.records[ent].requested
        THEN LET s == _send(c, c.mirrors[m], Fetch(key), outcome) IN
             IF s.threw THEN [s EXCEPT !.ret = NoRef] ELSE s
        ELSE c

\* Cache.get
get(st, m, key, outcome) ==
    LET c == _cached(st, m, key)
        ent == c.ret
    IN  IF ~ c.records[ent].requested
        THEN LET s == _send(c, c.mirrors[m], Fetch(key), outcome) IN
             IF s.threw
             THEN [s EXCEPT !.ret = NoRef]
             ELSE [s EXCEPT !.records[ent].requested = TRUE]
        ELSE c

\* set without its _send: the write stays local.
set_LocalOnly(st, m, key, value, outcome) ==
    LET c == _cached(st, m, key)
        ent == c.ret
    IN  [c EXCEPT !.records[ent].value = value]

\* Cache.set
set(st, m, key, value, outcome) ==
    LET c == _cached(st, m, key)
        ent == c.ret
        w == [c EXCEPT !.records[ent].value = value]
        s == _send(w, w.mirrors[m], Entry(key, value), outcome)
    IN  IF s.threw THEN [s EXCEPT !.ret = NoRef] ELSE s

\* onMessage whose 'entry' case spares a value the entry already holds.
onMessage_KeepsLocal(st, m, msg) ==
    LET lc == st.mirrors[m]._local_cache IN
    CASE msg.type = "entry" ->
            IF msg.key \in DOMAIN lc /\ st.records[lc[msg.key]].value = Absent
            THEN [st EXCEPT !.records[lc[msg.key]].value = msg.value]
            ELSE st
      [] msg.type = "expiring" ->
            IF msg.key \in DOMAIN lc
            THEN [st EXCEPT !.records[lc[msg.key]].value = Absent]
            ELSE st
      [] OTHER -> st

\* onMessage where the first value delivered wins: an entry that holds a
\* value is touched by no later message.
onMessage_FirstWins(st, m, msg) ==
    LET lc == st.mirrors[m]._local_cache IN
    CASE msg.type = "entry" ->
            IF msg.key \in DOMAIN lc /\ st.records[lc[msg.key]].value = Absent
            THEN [st EXCEPT !.records[lc[msg.key]].value = msg.value]
            ELSE st
      [] OTHER -> st

\* onMessage whose 'entry' case creates the entry it does not find.
onMessage_Materializes(st, m, msg) ==
    LET lc == st.mirrors[m]._local_cache IN
    CASE msg.type = "entry" ->
            IF msg.key \in DOMAIN lc
            THEN [st EXCEPT !.records[lc[msg.key]].value = msg.value]
            ELSE [st EXCEPT !.records = Append(@, [key |-> msg.key,
                                                   value |-> msg.value,
                                                   requested |-> FALSE]),
                            !.mirrors[m]._local_cache =
                                @ @@ (msg.key :> Len(st.records) + 1)]
      [] msg.type = "expiring" ->
            IF msg.key \in DOMAIN lc
            THEN [st EXCEPT !.records[lc[msg.key]].value = Absent]
            ELSE st
      [] OTHER -> st

\* onMessage whose 'expiring' case also clears the requested flag.
onMessage_ResetsRequested(st, m, msg) ==
    LET lc == st.mirrors[m]._local_cache IN
    CASE msg.type = "entry" ->
            IF msg.key \in DOMAIN lc
            THEN [st EXCEPT !.records[lc[msg.key]].value = msg.value]
            ELSE st
      [] msg.type = "expiring" ->
            IF msg.key \in DOMAIN lc
            THEN [st EXCEPT !.records[lc[msg.key]].value = Absent,
                            !.records[lc[msg.key]].requested = FALSE]
            ELSE st
      [] OTHER -> st

\* onMessage whose 'fetch' case falls into the 'expiring' case above it.
onMessage_FetchExpires(st, m, msg) ==
    LET lc == st.mirrors[m]._local_cache IN
    CASE msg.type = "entry" ->
            IF msg.key \in DOMAIN lc
            THEN [st EXCEPT !.records[lc[msg.key]].value = msg.value]
            ELSE st
      [] msg.type \in {"expiring", "fetch"} ->
            IF msg.key \in DOMAIN lc
            THEN [st EXCEPT !.records[lc[msg.key]].value = Absent]
            ELSE st
      [] OTHER -> st

\* The onMessage listener the constructor installs.
onMessage(st, m, msg) ==
    LET lc == st.mirrors[m]._local_cache IN
    CASE msg.type = "entry" ->
            IF msg.key \in DOMAIN lc
            THEN [st EXCEPT !.records[lc[msg.key]].value = msg.value]
            ELSE st
      [] msg.type = "expiring" ->
            IF msg.key \in DOMAIN lc
            THEN [st EXCEPT !.records[lc[msg.key]].value = Absent]
            ELSE st
      [] OTHER -> st   \* 'fetch' and default: console.warn only

\* The onDisconnect listener the constructor installs: console.log only.
onDisconnect(st, m) == st

\* new Cache(name, conn)
Cache(name, conn) == [_name |-> name, _service |-> conn, _local_cache |-> <<>>]

\* open without its CACHES.set(name, cache).
open_Unregistered(reg, st, name) ==
    IF name \in DOMAIN reg
    THEN [reg |-> reg, st |-> [st EXCEPT !.ret = reg[name]]]
    ELSE LET conn == Len(st.ports) + 1
             cache == Len(st.mirrors) + 1
         IN  [reg |-> reg,
              st |-> [st EXCEPT !.ports = Append(@, [name |-> "cache:" \o name,
                                                     connected |-> TRUE,
                                                     outbox |-> <<>>,
                                                     inbox |-> <<>>]),
                                !.mirrors = Append(@, [_name |-> name,
                                                       _service |-> conn,
                                                       _local_cache |-> <<>>]),
                                !.ret = cache]]

\* Cache.open
open(reg, st, name) ==
    IF name \in DOMAIN reg
    THEN [reg |-> reg, st |-> [st EXCEPT !.ret = reg[name]]]
    ELSE LET conn == Len(st.ports) + 1
             cache == Len(st.mirrors) + 1
         IN  [reg |-> reg @@ (name :> cache),
              st |-> [st EXCEPT !.ports = Append(@, connect("cache:" \o name)),
                                !.mirrors = Append(@, Cache(name, conn)),
                                !.ret = cache]]

----------------------------------------------------------------------------
\* The heaps as one value, with the slots for a call's outcome: the value it
\* returns, whether it threw, and the messages postMessage accepted from it.
State == [mirrors |-> mirrors, records |-> records, ports |-> ports,
          ret |-> NoRef, threw |-> FALSE, posted |-> <<>>]

\* No posted Entry is being followed.
NoTrack == [src |-> NoRef, msg |-> <<>>, out |-> NoRef, inb |-> <<>>, done |-> {}]

Commit(s) ==
    /\ mirrors' = s.mirrors
    /\ records' = s.records
    /\ ports' = s.ports

Init ==
    /\ CACHES = <<>>
    /\ mirrors = <<>>
    /\ records = <<>>
    /\ ports = <<>>
    /\ last = [op |-> "init", args |-> <<>>, ret |-> NoRef, threw |-> FALSE,
               posted |-> <<>>]
    /\ fetchesSent = EmptyBag
    /\ gotKeys = {}
    /\ store = <<>>
    /\ track = NoTrack

Open(name) ==
    LET r == open(CACHES, State, name) IN
    /\ CACHES' = r.reg
    /\ Commit(r.st)
    /\ last' = [op |-> "open", args |-> <<name>>, ret |-> r.st.ret,
                threw |-> r.st.threw, posted |-> r.st.posted]
    /\ UNCHANGED <<fetchesSent, gotKeys>>

Get(m, key) ==
    /\ m \in DOMAIN mirrors
    /\ \E outcome \in PostOutcomes(ports[mirrors[m]._service]) :
         LET s == get(State, m, key, outcome)
             p == mirrors[m]._service
         IN  /\ Len(s.ports[p].outbox) <= MaxQueue
             /\ Commit(s)
             /\ last' = [op |-> "get", args |-> <<m, key>>, ret |-> s.ret,
                         threw |-> s.threw, posted |-> s.posted]
             /\ fetchesSent' =
                    IF \E i \in DOMAIN s.posted : s.posted[i].type = "fetch"
                    THEN fetchesSent (+) SetToBag({<<m, s.posted[i].key>> :
                                                     i \in DOMAIN s.posted})
                    ELSE fetchesSent
             /\ gotKeys' = gotKeys \cup {<<m, key>>}
    /\ UNCHANGED CACHES

Set(m, key, value) ==
    /\ m \in DOMAIN mirrors
    /\ \E outcome \in PostOutcomes(ports[mirrors[m]._service]) :
         LET s == set(State, m, key, value, outcome)
             p == mirrors[m]._service
         IN  /\ Len(s.ports[p].outbox) <= MaxQueue
             /\ Commit(s)
             /\ last' = [op |-> "set", args |-> <<m, key, value>>, ret |-> s.ret,
                         threw |-> s.threw, posted |-> s.posted]
    /\ UNCHANGED <<CACHES, fetchesSent, gotKeys>>

\* The port delivers a message from the service to the mirror's listener.
OnMessage(m, msg) ==
    /\ m \in DOMAIN mirrors
    /\ ports[mirrors[m]._service].connected
    /\ LET s == onMessage(State, m, msg) IN
         /\ Commit(s)
         /\ last' = [op |-> "onMessage", args |-> <<m, msg>>, ret |-> NoRef,
                     threw |-> s.threw, posted |-> s.posted]
    /\ UNCHANGED <<CACHES, fetchesSent, gotKeys>>

\* The port is disconnected and fires onDisconnect.
OnDisconnect(m) ==
    /\ m \in DOMAIN mirrors
    /\ ports[mirrors[m]._service].connected
    /\ LET s == onDisconnect(State, m) IN
         /\ mirrors' = s.mirrors
         /\ records' = s.records
         /\ ports' = [s.ports EXCEPT ![mirrors[m]._service].connected = FALSE]
         /\ last' = [op |-> "onDisconnect", args |-> <<m>>, ret |-> NoRef,
                     threw |-> s.threw, posted |-> s.posted]
    /\ UNCHANGED <<CACHES, fetchesSent, gotKeys>>

\* The service end of a port takes the oldest posted message.
ServiceReceive(p) ==
    /\ p \in DOMAIN ports
    /\ ports[p].outbox # <<>>
    /\ ports' = [ports EXCEPT ![p].outbox = Tail(@)]
    /\ last' = [op |-> "serviceReceive", args |-> <<p>>, ret |-> NoRef,
                threw |-> FALSE, posted |-> <<>>]
    /\ UNCHANGED <<CACHES, mirrors, records, fetchesSent, gotKeys>>

\* One cache, every key: the callers of a process open "settings" and use it.
\* The service is any sender of messages and any taker of posted ones.
Next ==
    \/ \E name \in {"settings"} : Open(name) /\ UNCHANGED <<store, track>>
    \/ \E m \in DOMAIN mirrors, key \in Keys :
            Get(m, key) /\ UNCHANGED <<store, track>>
    \/ \E m \in DOMAIN mirrors, key \in Keys, value \in Values :
            Set(m, key, value) /\ UNCHANGED <<store, track>>
    \/ \E m \in DOMAIN mirrors, msg \in InboundMessages :
            OnMessage(m, msg) /\ UNCHANGED <<store, track>>
    \/ \E m \in DOMAIN mirrors : OnDisconnect(m) /\ UNCHANGED <<store, track>>
    \/ \E p \in DOMAIN ports : ServiceReceive(p) /\ UNCHANGED <<store, track>>

Spec == Init /\ [][Next]_vars

\* Every cache name, one key and one value: the callers open any of the caches.
NextRegistry ==
    \/ \E name \in Names : Open(name) /\ UNCHANGED <<store, track>>
    \/ \E m \in DOMAIN mirrors : Get(m, "theme") /\ UNCHANGED <<store, track>>
    \/ \E m \in DOMAIN mirrors :
            Set(m, "theme", "dark") /\ UNCHANGED <<store, track>>
    \/ \E m \in DOMAIN mirrors,
          msg \in {Entry("theme", "dark"), Expiring("theme"), Unknown("theme")} :
            OnMessage(m, msg) /\ UNCHANGED <<store, track>>
    \/ \E m \in DOMAIN mirrors : OnDisconnect(m) /\ UNCHANGED <<store, track>>
    \/ \E p \in DOMAIN ports : ServiceReceive(p) /\ UNCHANGED <<store, track>>

SpecRegistry == Init /\ [][NextRegistry]_vars

----------------------------------------------------------------------------
\* The cache service and two clients of one cache.  Each client is a JS
\* environment of its own that has opened "settings": a Cache object and a
\* port each.  The service keeps the last value it was given for a key,
\* rebroadcasts an Entry to every other connected client, and answers a Fetch
\* with a broadcast of what it holds.

\* The ports of the same cache as port p that are connected, p apart.
Peers(p) ==
    {q \in DOMAIN ports : q # p /\ ports[q].connected /\ ports[q].name = ports[p].name}

\* Every connected port of the cache of port p.
Clients(p) ==
    {q \in DOMAIN ports : ports[q].connected /\ ports[q].name = ports[p].name}

\* ps with msg appended to the inbox of each target.
Broadcast(ps, targets, msg) ==
    [q \in DOMAIN ps |->
        IF q \in targets THEN [ps[q] EXCEPT !.inbox = Append(@, msg)] ELSE ps[q]]

HasRoom(targets) == \A q \in targets : Len(ports[q].inbox) < MaxInbox

\* What the service answers to a Fetch of key.
Answer(key) ==
    IF key \in DOMAIN store THEN Entry(key, store[key]) ELSE Expiring(key)

\* The followed Entry after the service took a message from port p and
\* broadcast to targets, the ports being ps afterwards.
TrackHandled(p, targets, ps) ==
    IF track.src = p /\ track.out > 0
    THEN IF track.out = 1
         THEN [track EXCEPT !.out = 0,
                            !.inb = [q \in targets |-> Len(ps[q].inbox)]]
         ELSE [track EXCEPT !.out = @ - 1]
    ELSE track

\* The followed Entry after port p delivered the head of its inbox.
TrackDelivered(p) ==
    IF p \in DOMAIN track.inb
    THEN IF track.inb[p] = 1
         THEN [track EXCEPT !.inb = [q \in DOMAIN track.inb \ {p} |-> track.inb[q]],
                            !.done = @ \cup {p}]
         ELSE [track EXCEPT !.inb[p] = @ - 1]
    ELSE track

\* The service takes the oldest message posted on port p and acts on it.
ServiceHandle(p) ==
    /\ p \in DOMAIN ports
    /\ ports[p].outbox # <<>>
    /\ LET msg == Head(ports[p].outbox)
           taken == [ports EXCEPT ![p].outbox = Tail(@)]
       IN  CASE msg.type = "entry" ->
                  /\ HasRoom(Peers(p))
                  /\ store' = [k \in DOMAIN store \cup {msg.key} |->
                                  IF k = msg.key THEN msg.value ELSE store[k]]
                  /\ ports' = Broadcast(taken, Peers(p), msg)
                  /\ track' = TrackHandled(p, Peers(p), ports')
             [] msg.type = "fetch" ->
                  /\ HasRoom(Clients(p))
                  /\ store' = store
                  /\ ports' = Broadcast(taken, Clients(p), Answer(msg.key))
                  /\ track' = TrackHandled(p, {}, ports')
             [] OTHER ->
                  /\ store' = store
                  /\ ports' = taken
                  /\ track' = TrackHandled(p, {}, ports')
    /\ last' = [op |-> "serviceHandle", args |-> <<p>>, ret |-> NoRef,
                threw |-> FALSE, posted |-> <<>>]
    /\ UNCHANGED <<CACHES, mirrors, records, fetchesSent, gotKeys>>

\* The port of mirror m delivers the oldest message of its inbox to the
\* onMessage listener.
Deliver(m) ==
    /\ m \in DOMAIN mirrors
    /\ ports[mirrors[m]._service].connected
    /\ ports[mirrors[m]._service].inbox # <<>>
    /\ LET p == mirrors[m]._service
           msg == Head(ports[p].inbox)
           s == onMessage(State, m, msg)
       IN  /\ mirrors' = s.mirrors
           /\ records' = s.records
           /\ ports' = [s.ports EXCEPT ![p].inbox = Tail(@)]
           /\ last' = [op |-> "onMessage", args |-> <<m, msg>>, ret |-> NoRef,
                       threw |-> s.threw, posted |-> s.posted]
           /\ track' = TrackDelivered(p)
    /\ UNCHANGED <<CACHES, fetchesSent, gotKeys, store>>

\* A set() whose Entry may be the one that is followed.
TrackedSet(m, key, value) ==
    /\ Set(m, key, value)
    /\ store' = store
    /\ \/ track' = track
       \/ /\ track.src = NoRef
          /\ ports[mirrors[m]._service].connected
          /\ track' = [src |-> mirrors[m]._service,
                       msg |-> Entry(key, value),
                       out |-> Len(ports'[mirrors[m]._service].outbox),
                       inb |-> <<>>,
                       done |-> {}]

InitNet ==
    /\ CACHES = ("settings" :> 1)
    /\ mirrors = <<Cache("settings", 1), Cache("settings", 2)>>
    /\ records = <<>>
    /\ ports = <<connect("cache:settings"), connect("cache:settings")>>
    /\ last = [op |-> "init", args |-> <<>>, ret |-> NoRef, threw |-> FALSE,
               posted |-> <<>>]
    /\ fetchesSent = EmptyBag
    /\ gotKeys = {}
    /\ store = <<>>
    /\ track = NoTrack

\* The first client writes "dark", the second "light"; both read.
NextNet ==
    \/ \E m \in DOMAIN mirrors : Get(m, "theme") /\ UNCHANGED <<store, track>>
    \/ TrackedSet(1, "theme", "dark")
    \/ TrackedSet(2, "theme", "light")
    \/ \E m \in DOMAIN mirrors : Deliver(m)
    \/ \E p \in DOMAIN ports : ServiceHandle(p)

SpecNet == InitNet /\ [][NextNet]_vars

\* The channel is reliable and the service serves every port: a message in
\* an inbox is delivered, a posted message is handled.
SpecNetFair ==
    /\ SpecNet
    /\ \A m \in {1, 2} : WF_vars(Deliver(m))
    /\ \A p \in {1, 2} : WF_vars(ServiceHandle(p))

----------------------------------------------------------------------------
\* One client and its channel: the service puts any message about "theme" on
\* the port, the port delivers them to the listener oldest first.

\* The service sends msg to the client of port p.
ServiceSend(p, msg) ==
    /\ p \in DOMAIN ports
    /\ ports[p].connected
    /\ HasRoom({p})
    /\ ports' = Broadcast(ports, {p}, msg)
    /\ last' = [op |-> "serviceSend", args |-> <<p, msg>>, ret |-> NoRef,
                threw |-> FALSE, posted |-> <<>>]
    /\ UNCHANGED <<CACHES, mirrors, records, fetchesSent, gotKeys, store, track>>

NextChannel ==
    \/ Open("settings") /\ UNCHANGED <<store, track>>
    \/ \E m \in DOMAIN mirrors : Get(m, "theme") /\ UNCHANGED <<store, track>>
    \/ \E m \in DOMAIN mirrors, value \in Values :
            Set(m, "theme", value) /\ UNCHANGED <<store, track>>
    \/ \E p \in DOMAIN ports,
          msg \in {Entry("theme", v) : v \in Values}
                    \cup {Expiring("theme"), Unknown("theme")} :
            ServiceSend(p, msg)
    \/ \E m \in DOMAIN mirrors : Deliver(m)
    \/ \E p \in DOMAIN ports : ServiceReceive(p) /\ UNCHANGED <<store, track>>

SpecChannel == Init /\ [][NextChannel]_vars

TypeOK ==
    /\ DOMAIN CACHES \subseteq Names
    /\ \A n \in DOMAIN CACHES : CACHES[n] \in DOMAIN mirrors
    /\ \A m \in DOMAIN mirrors :
         /\ mirrors[m]._service \in DOMAIN ports
         /\ \A k \in DOMAIN mirrors[m]._local_cache :
              mirrors[m]._local_cache[k] \in DOMAIN records
    /\ \A r \in DOMAIN records :
         /\ records[r].key \in Keys
         /\ records[r].value \in Values \cup {Absent}
         /\ records[r].requested \in BOOLEAN

----------------------------------------------------------------------------
\* Reading the state.

\* this._local_cache of Cache object m
LocalCache(m) == mirrors[m]._local_cache

\* this._local_cache.get(key) finds an entry
HasRecord(m, key) == m \in DOMAIN mirrors /\ key \in DOMAIN LocalCache(m)

\* The port of Cache object m has not fired onDisconnect.
Connected(m) == ports[mirrors[m]._service].connected

\* The ports connected under the channel name of cache `name`.
PortsNamed(name) == {p \in DOMAIN ports : ports[p].name = "cache:" \o name}

----------------------------------------------------------------------------
\* C1: request de-duplication.  For every mirror and key on which get() has
\* been called (once or more), exactly one Fetch{key} has been sent by that
\* mirror; holding from the first call on, it is sent during that call.
C1_ExactlyOneFetch ==
    \A mk \in gotKeys : CopiesIn(mk, fetchesSent) = 1

\* C2: optimistic local write.  Every set(key, v) call returns the record of
\* key, that record (the one get(key) returns) holds v when the call returns,
\* and the call emits exactly one message, Entry{key, v}.
C2_SetWritesAndSends ==
    [][\A m \in DOMAIN mirrors, k \in Keys, v \in Values :
          (last'.op = "set" /\ last'.args = <<m, k, v>>) =>
              /\ ~ last'.threw
              /\ HasRecord(m, k)'
              /\ last'.ret = LocalCache(m)'[k]
              /\ records'[last'.ret].value = v
              /\ last'.posted = <<Entry(k, v)>>]_vars

C4_EntryOverwrites ==
    [][\A m \in DOMAIN mirrors :
          (/\ last'.op = "onMessage"
           /\ last'.args[1] = m
           /\ last'.args[2].type = "entry"
           /\ HasRecord(m, last'.args[2].key)) =>
              /\ records' = [records EXCEPT
                                ![LocalCache(m)[last'.args[2].key]].value =
                                    last'.args[2].value]
              /\ UNCHANGED <<CACHES, mirrors, ports>>]_vars

\* Entry{theme, light} has just replaced a value written by a local
\* set(theme, dark) whose Entry is still in the port's queue.
C4_Witness ==
    /\ last.op = "onMessage"
    /\ last.args[2] = Entry("theme", "light")
    /\ HasRecord(last.args[1], "theme")
    /\ records[LocalCache(last.args[1])["theme"]].value = "light"
    /\ ports[mirrors[last.args[1]]._service].outbox = <<Entry("theme", "dark")>>

\* C5: an inbound Entry or Expiring for a key with no record changes nothing
\* (no record created, registry, mirrors, records and ports as before), sends
\* nothing and raises nothing; and whenever a record comes into existence, the
\* step is a local get or set of that very key on that mirror.
C5_UnknownKeyNoOp ==
    [][/\ \A m \in DOMAIN mirrors :
            (/\ last'.op = "onMessage"
             /\ last'.args[1] = m
             /\ last'.args[2].type \in {"entry", "expiring"}
             /\ ~ HasRecord(m, last'.args[2].key)) =>
                /\ UNCHANGED <<CACHES, mirrors, records, ports>>
                /\ last'.posted = <<>>
                /\ ~ last'.threw
       /\ \A m \in DOMAIN mirrors', k \in Keys :
            (HasRecord(m, k)' /\ ~ HasRecord(m, k)) =>
                /\ last'.op \in {"get", "set"}
                /\ last'.args[1] = m
                /\ last'.args[2] = k
       /\ Len(records') > Len(records) => last'.op \in {"get", "set"}]_vars

\* Entry{volume, _} has just been delivered to a mirror that holds a record
\* for theme and none for volume.
C5_Witness ==
    /\ last.op = "onMessage"
    /\ last.args[2].type = "entry"
    /\ last.args[2].key = "volume"
    /\ HasRecord(last.args[1], "theme")
    /\ ~ HasRecord(last.args[1], "volume")

\* C6: an inbound Expiring{key} for a key with a record sets that record's
\* value to absent; the record stays in the mirror as the same object, its
\* key and requested flag and every other record are unchanged.
C6_ExpiringClears ==
    [][\A m \in DOMAIN mirrors :
          (/\ last'.op = "onMessage"
           /\ last'.args[1] = m
           /\ last'.args[2].type = "expiring"
           /\ HasRecord(m, last'.args[2].key)) =>
              /\ records' = [records EXCEPT
                                ![LocalCache(m)[last'.args[2].key]].value = Absent]
              /\ UNCHANGED <<CACHES, mirrors, ports>>]_vars

\* Expiring{theme} has just emptied a record that was fetched and then set
\* locally (the Entry is still queued): the record is there, absent, with
\* requested still set.
C6_Witness ==
    /\ last.op = "onMessage"
    /\ last.args[2] = Expiring("theme")
    /\ HasRecord(last.args[1], "theme")
    /\ records[LocalCache(last.args[1])["theme"]].value = Absent
    /\ records[LocalCache(last.args[1])["theme"]].requested
    /\ ports[mirrors[last.args[1]]._service].outbox = <<Entry("theme", "dark")>>

\* C7: an inbound Fetch, or a message of an unrecognized type, changes no
\* state (registry, mirrors, records, ports: the port stays connected and
\* goes on delivering), sends nothing and raises nothing.
C7_UnknownMessageIgnored ==
    [][(/\ last'.op = "onMessage"
        /\ last'.args[2].type \notin {"entry", "expiring"}) =>
           /\ UNCHANGED <<CACHES, mirrors, records, ports>>
           /\ last'.posted = <<>>
           /\ ~ last'.threw]_vars

\* A Fetch for a key whose record holds a value has just been delivered.
C7_Witness ==
    /\ last.op = "onMessage"
    /\ last.args[2] = Fetch("theme")
    /\ HasRecord(last.args[1], "theme")
    /\ records[LocalCache(last.args[1])["theme"]].value = "dark"

\* What the registry holds: every registered name maps to a Cache object of
\* that name, whose port is the one connection named "cache:<name>"; no name
\* that was not opened has a connection; every Cache object there is, is the
\* registered one of its name.
C8_Registered ==
    /\ \A n \in DOMAIN CACHES :
         /\ CACHES[n] \in DOMAIN mirrors
         /\ mirrors[CACHES[n]]._name = n
         /\ PortsNamed(n) = {mirrors[CACHES[n]]._service}
    /\ \A n \in Names \ DOMAIN CACHES : PortsNamed(n) = {}
    /\ \A m \in DOMAIN mirrors :
         /\ mirrors[m]._name \in DOMAIN CACHES
         /\ CACHES[mirrors[m]._name] = m
    /\ Len(mirrors) = Cardinality(DOMAIN CACHES)
    /\ Len(ports) = Cardinality(DOMAIN CACHES)

\* What a step does to the registry: a registered mirror stays, and every
\* open(name) returns the mirror registered for name, which is the one that
\* was registered before the call if there was one.
C8_Step ==
    /\ \A n \in DOMAIN CACHES :
         /\ n \in DOMAIN CACHES'
         /\ CACHES'[n] = CACHES[n]
    /\ last'.op = "open" =>
         /\ ~ last'.threw
         /\ last'.args[1] \in DOMAIN CACHES'
         /\ last'.ret = CACHES'[last'.args[1]]
         /\ last'.args[1] \in DOMAIN CACHES =>
               UNCHANGED <<CACHES, mirrors, records, ports>>

\* C8: registry idempotence.  Any number of open(name) calls return the
\* identical Mirror; the registry holds at most one Mirror per name, exactly
\* one connection "cache:<name>" exists per opened name, and a registered
\* Mirror is never removed or replaced.
C8_RegistryIdempotent == [] C8_Registered /\ [][C8_Step]_vars

\* Both caches are open, and open() has just returned again a mirror that
\* already holds a record.
C8_Witness ==
    /\ last.op = "open"
    /\ DOMAIN CACHES = Names
    /\ HasRecord(last.ret, "theme")
    /\ last.ret = CACHES[last.args[1]]

\* C9: disconnect tolerance.  The disconnect event changes no local state and
\* opens no new connection; and every get(key) or set(key, v) on a mirror
\* whose channel is disconnected completes without an error, returning the
\* record of key (for set, holding v).
C9_DisconnectTolerance ==
    [][/\ last'.op = "onDisconnect" =>
            /\ UNCHANGED <<CACHES, mirrors, records>>
            /\ Len(ports') = Len(ports)
       /\ \A m \in DOMAIN mirrors, k \in Keys :
            (/\ last'.op \in {"get", "set"}
             /\ last'.args[1] = m
             /\ last'.args[2] = k
             /\ ~ Connected(m)) =>
                /\ ~ last'.threw
                /\ Len(ports') = Len(ports)
                /\ HasRecord(m, k)'
                /\ last'.ret = LocalCache(m)'[k]
                /\ last'.op = "set" =>
                      records'[last'.ret].value = last'.args[3]]_vars

\* C10: get(key) on a key the mirror has no record of creates the record with
\* value absent and returns it with requested = true; and a get(key) never
\* changes the value of any record, nor creates or changes the record of any
\* other key.
C10_GetCreatesAndFrames ==
    [][\A m \in DOMAIN mirrors, k \in Keys :
          (last'.op = "get" /\ last'.args = <<m, k>>) =>
              /\ ~ HasRecord(m, k) =>
                    /\ ~ last'.threw
                    /\ HasRecord(m, k)'
                    /\ last'.ret = LocalCache(m)'[k]
                    /\ records'[last'.ret] =
                          [key |-> k, value |-> Absent, requested |-> TRUE]
              /\ \A r \in DOMAIN records :
                    /\ records'[r].value = records[r].value
                    /\ records[r].key # k => records'[r] = records[r]
              /\ \A k2 \in Keys \ {k} : HasRecord(m, k2)' = HasRecord(m, k2)]_vars

\* C12: requested is a monotonic latch.  A record whose requested flag is set
\* keeps it set through every step; a get of its key then sends nothing; and
\* while its value is absent (after an Expiring, say) the value stays absent
\* in every step but an inbound Entry for the key or a local set of the key.
C12_RequestedLatch ==
    [][\A m \in DOMAIN mirrors : \A k \in DOMAIN LocalCache(m) :
          records[LocalCache(m)[k]].requested =>
              /\ HasRecord(m, k)'
              /\ records'[LocalCache(m)'[k]].requested
              /\ (last'.op = "get" /\ last'.args = <<m, k>>) =>
                    /\ last'.posted = <<>>
                    /\ ports' = ports
              /\ (/\ records[LocalCache(m)[k]].value = Absent
                  /\ records'[LocalCache(m)'[k]].value # Absent) =>
                    /\ last'.args[1] = m
                    /\ \/ last'.op = "set" /\ last'.args[2] = k
                       \/ /\ last'.op = "onMessage"
                          /\ last'.args[2].type = "entry"
                          /\ last'.args[2].key = k]_vars

\* A get of "theme" has just run on a record that was fetched, then set
\* locally (the Entry is still queued), then expired: it sent nothing, the
\* value is absent and requested is set.
C12_Witness ==
    /\ last.op = "get"
    /\ last.args[2] = "theme"
    /\ last.posted = <<>>
    /\ ~ last.threw
    /\ records[last.ret].requested
    /\ records[last.ret].value = Absent
    /\ ports[mirrors[last.args[1]]._service].outbox = <<Entry("theme", "dark")>>

\* C13: for every mirror and key, the record exists with requested = true
\* exactly when the mirror has sent a Fetch for the key; and no mirror has
\* sent more than one Fetch for a key.
C13_RequestedIffFetched ==
    \A m \in DOMAIN mirrors, k \in Keys :
        /\ (HasRecord(m, k) /\ records[LocalCache(m)[k]].requested)
              <=> CopiesIn(<<m, k>>, fetchesSent) >= 1
        /\ CopiesIn(<<m, k>>, fetchesSent) <= 1

\* One record was fetched once and has been got again; another was created
\* by set and never fetched.
C13_Witness ==
    /\ last.op = "get"
    /\ last.args = <<1, "theme">>
    /\ last.posted = <<>>
    /\ HasRecord(1, "theme")
    /\ records[LocalCache(1)["theme"]].requested
    /\ CopiesIn(<<1, "theme">>, fetchesSent) = 1
    /\ HasRecord(1, "volume")
    /\ ~ records[LocalCache(1)["volume"]].requested
    /\ records[LocalCache(1)["volume"]].value = "light"
    /\ CopiesIn(<<1, "volume">>, fetchesSent) = 0

\* C15: outbound vocabulary and no-ack.  A mirror posts only Fetch and Entry
\* messages; only get and set post; a get posts at most one message, the
\* Fetch of its key; a set posts exactly one, the Entry of its key and value;
\* what is posted is appended to the port's queue, behind what was posted
\* before; an inbound message or a disconnect posts nothing.
C15_OutboundVocabulary ==
    [][/\ \A i \in DOMAIN last'.posted : last'.posted[i].type \in {"fetch", "entry"}
       /\ last'.posted # <<>> => last'.op \in {"get", "set"}
       /\ last'.op = "get" =>
             \/ last'.posted = <<>>
             \/ last'.posted = <<Fetch(last'.args[2])>>
       /\ last'.op = "set" =>
             last'.posted = <<Entry(last'.args[2], last'.args[3])>>
       /\ \A m \in DOMAIN mirrors :
             (last'.op \in {"get", "set"} /\ last'.args[1] = m /\ Connected(m)) =>
                 ports'[mirrors[m]._service].outbox =
                     ports[mirrors[m]._service].outbox \o last'.posted
       /\ last'.op \in {"onMessage", "onDisconnect"} =>
             /\ last'.posted = <<>>
             /\ \A p \in DOMAIN ports : ports'[p].outbox = ports[p].outbox]_vars

\* C17 (frame): a get, set, inbound message or disconnect on one mirror leaves
\* every other mirror's map, every record of every other mirror, and every
\* other mirror's port as they were.
C17_MirrorsIndependent ==
    [][\A a \in DOMAIN mirrors, b \in DOMAIN mirrors :
          (/\ a # b
           /\ last'.op \in {"get", "set", "onMessage", "onDisconnect"}
           /\ last'.args[1] = a) =>
              /\ mirrors'[b] = mirrors[b]
              /\ mirrors[b]._service # mirrors[a]._service
              /\ ports'[mirrors[b]._service] = ports[mirrors[b]._service]
              /\ \A k \in DOMAIN LocalCache(b) :
                    /\ records'[LocalCache(b)[k]] = records[LocalCache(b)[k]]
                    /\ \A k2 \in DOMAIN LocalCache(a)' :
                          LocalCache(a)'[k2] # LocalCache(b)[k]]_vars

\* The mirrors of the two names hold "theme" differently: one fetched and
\* holding a value, the other never fetched and absent; an operation on the
\* first has just run.
C17_Witness ==
    /\ DOMAIN CACHES = Names
    /\ last.op \in {"get", "set", "onMessage"}
    /\ last.args[1] = CACHES["settings"]
    /\ HasRecord(CACHES["settings"], "theme")
    /\ HasRecord(CACHES["bookmarks"], "theme")
    /\ records[LocalCache(CACHES["settings"])["theme"]] =
          [key |-> "theme", value |-> "dark", requested |-> TRUE]
    /\ records[LocalCache(CACHES["bookmarks"])["theme"]] =
          [key |-> "theme", value |-> Absent, requested |-> FALSE]

\* C18: set(key, v) never changes a requested flag and never sends a Fetch, a
\* record it creates has requested = false; and a get(key) on a record that
\* was never fetched (created by set, say) emits exactly one Fetch{key} and
\* returns the record with the value it held.
C18_SetLeavesRequested ==
    [][/\ \A m \in DOMAIN mirrors, k \in Keys :
            (last'.op = "set" /\ last'.args[1] = m /\ last'.args[2] = k) =>
                /\ \A r \in DOMAIN records :
                      records'[r].requested = records[r].requested
                /\ \A r \in DOMAIN records' \ DOMAIN records :
                      ~ records'[r].requested
                /\ \A i \in DOMAIN last'.posted : last'.posted[i].type # "fetch"
       /\ \A m \in DOMAIN mirrors, k \in Keys :
            (/\ last'.op = "get" /\ last'.args = <<m, k>>
             /\ HasRecord(m, k)
             /\ ~ records[LocalCache(m)[k]].requested) =>
                /\ ~ last'.threw
                /\ last'.posted = <<Fetch(k)>>
                /\ last'.ret = LocalCache(m)[k]
                /\ records'[last'.ret].value = records[last'.ret].value
                /\ records'[last'.ret].requested]_vars

\* Every queue of every port is empty: nothing posted waits for the service,
\* nothing sent waits for delivery.
Quiescent ==
    \A p \in DOMAIN ports : ports[p].outbox = <<>> /\ ports[p].inbox = <<>>

\* The port of the client that writes value v (the first writes "dark", the
\* second "light").
WriterOf(v) == IF v = "dark" THEN 1 ELSE 2

\* C11 (delivery): the followed Entry reaches port q only by q's listener
\* being run on that very message, and a mirror that holds a record for the
\* key then holds the message's value.
C11_Applied ==
    \A q \in DOMAIN ports :
        (q \in track.done' /\ q \notin track.done) =>
            \E m \in DOMAIN mirrors :
                /\ mirrors[m]._service = q
                /\ last'.op = "onMessage"
                /\ last'.args = <<m, track.msg>>
                /\ HasRecord(m, track.msg.key) =>
                      records'[LocalCache(m)[track.msg.key]].value = track.msg.value

\* C11: propagation.  With a service that rebroadcasts every Entry it takes
\* to the other connected clients and channels that deliver, the Entry{key, v}
\* of any set(key, v) on one mirror is eventually delivered to every other
\* connected mirror, which applies it if it holds a record for key.
C11_Propagation ==
    /\ \A q \in {1, 2} :
          (track.src # NoRef /\ track.src # q)
              ~> (q \in track.done \/ ~ ports[q].connected)
    /\ [][C11_Applied]_vars

\* The Entry of a set on the first mirror has been delivered to the second,
\* which held a record and now holds the value.
C11_Witness ==
    /\ track.src = 1
    /\ track.done = {2}
    /\ last.op = "onMessage"
    /\ last.args = <<2, Entry("theme", "dark")>>
    /\ HasRecord(2, "theme")
    /\ records[LocalCache(2)["theme"]].value = "dark"

\* C14: last message wins, in delivery order.  The listener is run on the
\* oldest message of the inbox and on that one alone, the rest staying queued
\* in order; an Entry or Expiring for a key with a record leaves the record
\* holding that Entry's value, or absent; and no step but these and a local
\* set of the key changes the record's value.
C14_LastDeliveredWins ==
    [][\A m \in DOMAIN mirrors :
          /\ (last'.op = "onMessage" /\ last'.args[1] = m) =>
                /\ ports[mirrors[m]._service].inbox # <<>>
                /\ last'.args[2] = Head(ports[mirrors[m]._service].inbox)
                /\ ports'[mirrors[m]._service].inbox =
                      Tail(ports[mirrors[m]._service].inbox)
          /\ \A k \in DOMAIN LocalCache(m) :
                LET deliveredFor ==
                        /\ last'.op = "onMessage"
                        /\ last'.args[1] = m
                        /\ last'.args[2].type \in {"entry", "expiring"}
                        /\ last'.args[2].key = k
                    setOf ==
                        /\ last'.op = "set"
                        /\ last'.args[1] = m
                        /\ last'.args[2] = k
                IN  /\ deliveredFor =>
                          records'[LocalCache(m)[k]].value =
                              IF last'.args[2].type = "entry"
                              THEN last'.args[2].value ELSE Absent
                    /\ (~ deliveredFor /\ ~ setOf) =>
                          records'[LocalCache(m)[k]].value =
                              records[LocalCache(m)[k]].value]_vars

\* Entry{theme, light} has just been delivered and applied while the
\* Expiring{theme} sent after it is still queued behind it.
C14_Witness ==
    /\ last.op = "onMessage"
    /\ last.args[2] = Entry("theme", "light")
    /\ HasRecord(last.args[1], "theme")
    /\ records[LocalCache(last.args[1])["theme"]].value = "light"
    /\ ports[mirrors[last.args[1]]._service].inbox = <<Expiring("theme")>>

\* C16: staleness at quiescence, and its extent.  With all channels empty, a
\* mirror holding a record agrees with the service's value unless it is the
\* mirror that wrote that value; the writer itself may hold an older value
\* delivered after its own write, so convergence at quiescence is no invariant.
C16_StaleOnlyAtWriter ==
    (Quiescent /\ "theme" \in DOMAIN store) =>
        \A m \in DOMAIN mirrors :
            (HasRecord(m, "theme") /\ mirrors[m]._service # WriterOf(store["theme"])) =>
                records[LocalCache(m)["theme"]].value = store["theme"]

\* C16: staleness is reachable.  All channels are empty, both mirrors hold a
\* record for "theme", the service holds "dark", and the first mirror's
\* record holds "light": convergence at quiescence is no invariant.
C16_Witness ==
    /\ Quiescent
    /\ HasRecord(1, "theme")
    /\ HasRecord(2, "theme")
    /\ store["theme"] = "dark"
    /\ records[LocalCache(1)["theme"]].value = "light"
    /\ records[LocalCache(2)["theme"]].value = "dark"

====
